---- MODULE Spec2Model ----
(***************************************************************************)
(* Admission control of the SPAMKLR waitlist and contact form and the      *)
(* waitlist statistics: business/business.js on top of                     *)
(* persistence/persistence.js.  Every await of addToWaitlist,              *)
(* addContactSubmission and getWaitlistStats is one store round-trip and   *)
(* one step of the calling request; requests of different processes        *)
(* interleave between round-trips.                                         *)
(***************************************************************************)
EXTENDS Integers, Sequences, FiniteSets, TLC

\* ------------------------------------------------------------------ bounds
NumProcs == 2        \* requests that can be in flight at the same time
MaxTime == 2         \* last instant of the clock
MaxSessions == 3     \* session ids the session store can issue
MaxConns == 3        \* connections the HTTP server can have open
MaxRetries == 2      \* largest maxRetries retryWithBackoff is called with

\* ------------------------------------------------------- program constants
\* persistence.js:143  sinceMs = 24 * 60 * 60 * 1000; the clock counts days
Day == 1
DefaultMaxEntries == 10000
DefaultIpLimit == 3
DefaultContactIpLimit == 5
NameMinLen == 2
NameMaxLen == 50
SubjectMinLen == 3
SubjectMaxLen == 100
MessageMinLen == 10
MessageMaxLen == 1000
DupKeyCode == 11000

Procs == 1..NumProcs

\* ------------------------------------------------------------------ strings
\* A string is a sequence of one-character strings.

IsSpace(c) == c = " "

ToLowerChar(c) ==
  CASE c = "A" -> "a"
    [] c = "B" -> "b"
    [] c = "C" -> "c"
    [] c = "D" -> "d"
    [] c = "E" -> "e"
    [] OTHER -> c

\* String.prototype.toLowerCase
ToLowerCase(s) == [i \in 1..Len(s) |-> ToLowerChar(s[i])]

RECURSIVE TrimStart(_)
TrimStart(s) ==
  IF s # <<>> /\ IsSpace(Head(s)) THEN TrimStart(Tail(s)) ELSE s

RECURSIVE TrimEnd(_)
TrimEnd(s) ==
  IF s # <<>> /\ IsSpace(s[Len(s)]) THEN TrimEnd(SubSeq(s, 1, Len(s) - 1)) ELSE s

\* String.prototype.trim
Trim(s) == TrimEnd(TrimStart(s))

\* /^[^\s@]+@[^\s@]+\.[^\s@]+$/.test(s)
EmailRegexTest(s) ==
  \E i \in 1..Len(s), j \in 1..Len(s) :
    /\ 1 < i /\ i + 1 < j /\ j < Len(s)
    /\ s[i] = "@"
    /\ s[j] = "."
    /\ \A k \in (1..Len(s)) \ {i} : ~IsSpace(s[k]) /\ s[k] # "@"

\* email.toLowerCase().trim()
NormalizeEmail(s) == Trim(ToLowerCase(s))

Digits == {"0", "1", "2", "3", "4", "5", "6", "7", "8", "9"}

DigitVal(c) ==
  CASE c = "0" -> 0 [] c = "1" -> 1 [] c = "2" -> 2 [] c = "3" -> 3
    [] c = "4" -> 4 [] c = "5" -> 5 [] c = "6" -> 6 [] c = "7" -> 7
    [] c = "8" -> 8 [] c = "9" -> 9

RECURSIVE DigitPrefix(_, _)
DigitPrefix(s, acc) ==
  IF s # <<>> /\ Head(s) \in Digits
    THEN DigitPrefix(Tail(s), acc * 10 + DigitVal(Head(s)))
    ELSE acc

\* parseInt(s, 10) of an unsigned text: the value of the leading digits, NaN
\* when the text does not start with a digit (an unset variable included).
ParseInt(s) ==
  LET t == TrimStart(s)
  IN IF t # <<>> /\ Head(t) \in Digits
       THEN [isNaN |-> FALSE, value |-> DigitPrefix(t, 0)]
       ELSE [isNaN |-> TRUE, value |-> 0]

\* parseInt(...) || dflt : NaN and 0 are falsy
OrDefault(r, dflt) == IF r.isNaN \/ r.value = 0 THEN dflt ELSE r.value

\* ------------------------------------------------------------------ inputs
Undefined == "<undefined>"

LongName == [i \in 1..(NameMaxLen + 1) |-> "a"]

\* one client at a time: every kind of argument
NameInputs == { <<" ", "a", " ">>, <<" ", "a", "b">>, LongName }

EmailInputs ==
  { <<"a", "@", "b", ".", "c">>,
    <<"A", "@", "b", ".", "c">>,
    <<"d", "@", "b", ".", "c">>,
    <<"e", "@", "b", ".", "c">>,
    <<" ", "a", "@", "b", ".", "c">> }

IpInputs == { "1.2.3.4", Undefined, "" }

UaInputs == { Undefined, "" }

\* concurrent clients that submit the same address in two spellings
RaceNameInputs == { <<"a", "b">> }

RaceEmailInputs ==
  { <<"a", "@", "b", ".", "c">>,
    <<"A", "@", "b", ".", "c">> }

RaceIpInputs == { "1.2.3.4" }

\* concurrent clients with different addresses at the capacity boundary
CapEmailInputs ==
  { <<"a", "@", "b", ".", "c">>,
    <<"d", "@", "b", ".", "c">>,
    <<"e", "@", "b", ".", "c">> }

\* the end-to-end run of one client
RunEmailInputs ==
  { <<"j", "@", "x", ".", "c">>,
    <<"a", "@", "b", ".", "c">>,
    <<"d", "@", "b", ".", "c">>,
    <<"e", "@", "b", ".", "c">>,
    <<"f", "@", "b", ".", "c">> }

\* a client that submits again what it submitted before
AgainNameInputs == { <<"a", "b">>, <<" ", "a", " ">> }

AgainEmailInputs ==
  { <<"a", "@", "b", ".", "c">>,
    <<"A", "@", "b", ".", "c">>,
    <<"d", "@", "b", ".", "c">>,
    <<"a", "@", "b">> }

AgainContactEmailInputs == { <<"a", "@", "b", ".", "c">>, <<"a", "@", "b">> }

SubjectInputs == { <<"H", "i", "!">>, <<" ", "H", "i">> }

MessageInputs ==
  { <<"p", "l", "e", "a", "s", "e", " ", "c", "a", "l", "l">>,
    <<" ", "c", "a", "l", "l", " ", "m", "e", " ", " ">> }

\* clients that sign up while others read the statistics
StatsEmailInputs ==
  { <<"a", "@", "b", ".", "c">>,
    <<"d", "@", "b", ".", "c">> }

\* values of MAX_WAITLIST_ENTRIES, MAX_SIGNUPS_PER_IP_24H and
\* MAX_CONTACTS_PER_IP_24H in the environment
Unset == <<"u", "n", "d", "e", "f", "i", "n", "e", "d">>
EnvInputs ==
  { [MAX_WAITLIST_ENTRIES |-> <<"1">>, MAX_SIGNUPS_PER_IP_24H |-> Unset,
      MAX_CONTACTS_PER_IP_24H |-> Unset],
    [MAX_WAITLIST_ENTRIES |-> <<"2">>, MAX_SIGNUPS_PER_IP_24H |-> <<"1">>,
      MAX_CONTACTS_PER_IP_24H |-> Unset],
    [MAX_WAITLIST_ENTRIES |-> <<"0">>, MAX_SIGNUPS_PER_IP_24H |-> <<"2">>,
      MAX_CONTACTS_PER_IP_24H |-> Unset] }
RaceEnvInputs ==
  { [MAX_WAITLIST_ENTRIES |-> <<"1">>, MAX_SIGNUPS_PER_IP_24H |-> Unset,
      MAX_CONTACTS_PER_IP_24H |-> Unset],
    [MAX_WAITLIST_ENTRIES |-> Unset, MAX_SIGNUPS_PER_IP_24H |-> Unset,
      MAX_CONTACTS_PER_IP_24H |-> Unset] }
CapEnvInputs ==
  { [MAX_WAITLIST_ENTRIES |-> <<"1">>, MAX_SIGNUPS_PER_IP_24H |-> Unset,
      MAX_CONTACTS_PER_IP_24H |-> Unset] }

AgainEnvInputs ==
  { [MAX_WAITLIST_ENTRIES |-> <<"1">>, MAX_SIGNUPS_PER_IP_24H |-> Unset,
      MAX_CONTACTS_PER_IP_24H |-> <<"2">>],
    [MAX_WAITLIST_ENTRIES |-> <<"2">>, MAX_SIGNUPS_PER_IP_24H |-> <<"1">>,
      MAX_CONTACTS_PER_IP_24H |-> <<"1">>] }

StatsEnvInputs ==
  { [MAX_WAITLIST_ENTRIES |-> Unset, MAX_SIGNUPS_PER_IP_24H |-> Unset,
      MAX_CONTACTS_PER_IP_24H |-> Unset] }

PosEnvInputs ==
  { [MAX_WAITLIST_ENTRIES |-> <<"3">>, MAX_SIGNUPS_PER_IP_24H |-> Unset,
      MAX_CONTACTS_PER_IP_24H |-> Unset] }

LiveEnvInputs ==
  { [MAX_WAITLIST_ENTRIES |-> Unset, MAX_SIGNUPS_PER_IP_24H |-> Unset,
      MAX_CONTACTS_PER_IP_24H |-> <<"1">>] }

IpEnvInputs ==
  { [MAX_WAITLIST_ENTRIES |-> Unset, MAX_SIGNUPS_PER_IP_24H |-> <<"1">>,
      MAX_CONTACTS_PER_IP_24H |-> Unset] }

\* ------------------------------------------------------------------- state
VARIABLES
  env,           \* process.env: the variables the business layer reads
  now,           \* Date.now()
  waitlist,      \* the Waitlist collection, in insertion order
  contacts,      \* the Contact collection, in insertion order
  pc,            \* per request: the await it is suspended at
  op,            \* per request: the function that was called
  args,          \* per request: the destructured argument
  currentCount,  \* per request: the local currentCount
  raw,           \* per request: the local total of getStats
  result,        \* per request: what the call returned or threw
  queries,       \* history: store operations the call issued, in order
  pre,           \* history: the store as it was when the call started
  overlapped,    \* history: another call was in flight during this call
  inserted,      \* history: entries this call added to a collection
  positions,     \* history: the position returned for each waitlist entry
  prev,          \* history: the call the caller made before this one
  sessions,      \* server.js: the session store, by session id
  req,           \* server.js: the request in the middleware pipeline
  signal,        \* server.js: the signal the process received
  server,        \* server.js: the HTTP server
  conns,         \* server.js: connections the HTTP server has open
  db,            \* database.js: mongoose.connection
  timer,         \* server.js: the force-close timer of gracefulShutdown
  dbListener,    \* database.js: the signal listener of setupEventListeners
  shutdownPc,    \* server.js: where gracefulShutdown is
  exitCode,      \* process.exit: the exit code, Running before
  retry          \* common.js: a call of retryWithBackoff, its locals and history

\* the state of the business layer and the state of the server around it
core == <<env, now, waitlist, contacts, pc, op, args, currentCount, raw, result,
          queries, pre, overlapped, inserted, positions, prev>>

web == <<sessions, req>>

process == <<signal, server, conns, db, timer, dbListener, shutdownPc, exitCode>>

aside == <<web, process, retry>>

vars == <<core, aside>>

\* the awaits of addToWaitlist, of addContactSubmission and of getWaitlistStats
WaitlistAwaits == {"count", "find", "ip", "insert"}
ContactAwaits == {"contactIp", "contactInsert"}
StatsAwaits == {"total", "recent"}

InFlight == WaitlistAwaits \cup ContactAwaits \cup StatsAwaits

NoArgs == [name |-> <<>>, email |-> <<>>, ipAddress |-> "", userAgent |-> ""]
NoResult == [kind |-> "NONE", position |-> 0]
NoPre == [count |-> 0, present |-> FALSE, recentFromIP |-> 0]
NoPrev == [op |-> "none", args |-> NoArgs, kind |-> "NONE", pre |-> NoPre]

BusinessKinds ==
  {"INVALID_NAME", "INVALID_EMAIL", "WAITLIST_FULL", "DUPLICATE_EMAIL", "IP_RATE_LIMIT"}

\* -------------------------------------------------------------- persistence
\* countWaitlist: Waitlist.countDocuments()
countWaitlist(store) == Len(store)

countRecentByIPYounger(store, ipAddress, t) ==
  Cardinality({ i \in 1..Len(store) :
                  store[i].ipAddress = ipAddress /\ store[i].joinedAt > t - Day })

\* countRecentByIP: joinedAt >= Date.now() - sinceMs
countRecentByIP(store, ipAddress, t) ==
  Cardinality({ i \in 1..Len(store) :
                  store[i].ipAddress = ipAddress /\ store[i].joinedAt >= t - Day })

\* findByEmail: Waitlist.findOne({ email: (email || '').toLowerCase().trim() })
findByEmail(store, email) ==
  { i \in 1..Len(store) : store[i].email = Trim(ToLowerCase(email)) }

\* new Waitlist({...}): the schema setters (trim on name, trim and lowercase
\* on email) and the joinedAt default
NewWaitlist(name, email, ipAddress, userAgent, t) ==
  [ name |-> Trim(name),
    email |-> Trim(ToLowerCase(email)),
    ipAddress |-> ipAddress,
    userAgent |-> userAgent,
    joinedAt |-> t ]

\* the schema validators run by save(): required, minlength, maxlength, match
SchemaValid(doc) ==
  /\ doc.name # <<>>
  /\ Len(doc.name) >= NameMinLen
  /\ Len(doc.name) <= NameMaxLen
  /\ doc.email # <<>>
  /\ EmailRegexTest(doc.email)
  /\ doc.ipAddress # ""
  /\ doc.userAgent # ""

NoUniqueIndex(store, doc) == FALSE

\* the unique index on email
UniqueViolation(store, doc) ==
  \E i \in 1..Len(store) : store[i].email = doc.email

insertThenReject(store, doc) ==
  IF ~SchemaValid(doc)
    THEN [ok |-> FALSE, name |-> "ValidationError", code |-> 0, store |-> store]
  ELSE IF UniqueViolation(store, doc)
    THEN [ok |-> FALSE, name |-> "MongoServerError", code |-> DupKeyCode,
          store |-> Append(store, doc)]
  ELSE [ok |-> TRUE, name |-> "", code |-> 0, store |-> Append(store, doc)]

\* insertWaitlistEntry: entry.save() resolves with the stored document or
\* rejects with a ValidationError or with the duplicate-key error E11000
insertWaitlistEntry(store, doc) ==
  IF ~SchemaValid(doc)
    THEN [ok |-> FALSE, name |-> "ValidationError", code |-> 0, store |-> store]
  ELSE IF UniqueViolation(store, doc)
    THEN [ok |-> FALSE, name |-> "MongoServerError", code |-> DupKeyCode, store |-> store]
  ELSE [ok |-> TRUE, name |-> "", code |-> 0, store |-> Append(store, doc)]

countContactsAndSignupsByIP(store, ipAddress, t) ==
  Cardinality({ i \in 1..Len(store) :
                  store[i].ipAddress = ipAddress /\ store[i].createdAt >= t - Day })
  + countRecentByIP(waitlist, ipAddress, t)

\* countContactsByIP: createdAt >= Date.now() - sinceMs
countContactsByIP(store, ipAddress, t) ==
  Cardinality({ i \in 1..Len(store) :
                  store[i].ipAddress = ipAddress /\ store[i].createdAt >= t - Day })

\* new Contact({...}): the schema setters (trim on name, subject and message,
\* trim and lowercase on email), the status default and the createdAt timestamp
NewContact(name, email, subject, message, ipAddress, userAgent, t) ==
  [ name |-> Trim(name),
    email |-> Trim(ToLowerCase(email)),
    subject |-> Trim(subject),
    message |-> Trim(message),
    ipAddress |-> ipAddress,
    userAgent |-> userAgent,
    status |-> "new",
    createdAt |-> t ]

\* the validators of ContactSchema run by save(); the email has no unique index
ContactSchemaValid(doc) ==
  /\ doc.name # <<>>
  /\ Len(doc.name) >= NameMinLen
  /\ Len(doc.name) <= NameMaxLen
  /\ doc.email # <<>>
  /\ EmailRegexTest(doc.email)
  /\ doc.subject # <<>>
  /\ Len(doc.subject) <= SubjectMaxLen
  /\ doc.message # <<>>
  /\ Len(doc.message) >= MessageMinLen
  /\ Len(doc.message) <= MessageMaxLen
  /\ doc.ipAddress # ""
  /\ doc.userAgent # ""

insertContactEntryUnique(store, doc) ==
  IF ~ContactSchemaValid(doc)
    THEN [ok |-> FALSE, name |-> "ValidationError", code |-> 0, store |-> store]
  ELSE IF \/ \E i \in 1..Len(store) : store[i].email = doc.email
          \/ \E i \in 1..Len(waitlist) : waitlist[i].email = doc.email
    THEN [ok |-> FALSE, name |-> "MongoServerError", code |-> DupKeyCode, store |-> store]
  ELSE [ok |-> TRUE, name |-> "", code |-> 0, store |-> Append(store, doc)]

\* insertContactEntry: entry.save() resolves with the stored document or
\* rejects with a ValidationError
insertContactEntry(store, doc) ==
  IF ~ContactSchemaValid(doc)
    THEN [ok |-> FALSE, name |-> "ValidationError", code |-> 0, store |-> store]
    ELSE [ok |-> TRUE, name |-> "", code |-> 0, store |-> Append(store, doc)]

getStatsTotalOfOthers(store) == IF store = <<>> THEN 0 ELSE Len(store) - 1

\* getStats, line 161: Waitlist.countDocuments()
getStatsTotal(store) == Len(store)

\* getStats, lines 162-164: joinedAt >= Date.now() - 24 * 60 * 60 * 1000
getStatsRecent(store, t) ==
  Cardinality({ i \in 1..Len(store) : store[i].joinedAt >= t - Day })

\* ----------------------------------------------------------------- business
maxEntries == OrDefault(ParseInt(env.MAX_WAITLIST_ENTRIES), DefaultMaxEntries)
ipLimit == OrDefault(ParseInt(env.MAX_SIGNUPS_PER_IP_24H), DefaultIpLimit)

CapacityExceeded(count) == count > maxEntries

CapacityUnchecked(count) == FALSE

\* line 39: currentCount >= maxEntries
CapacityReached(count) == count >= maxEntries

IpLimitExceeded(recentFromIP) == recentFromIP > ipLimit

\* line 52: recentFromIP >= ipLimit
IpLimitReached(recentFromIP) == recentFromIP >= ipLimit

PositionAfterNext(count) == count + 2

PositionOfCount(count) == count

\* line 63: position: currentCount + 1
Position(count) == count + 1

NameRejectedUntrimmed(name) == name = <<>> \/ Len(name) < NameMinLen

\* line 30: !name || String(name).trim().length < 2
NameRejected(name) == name = <<>> \/ Len(Trim(name)) < NameMinLen

\* line 33: !email || !regex.test(email)
EmailRejected(email) == email = <<>> \/ ~EmailRegexTest(email)

InsertFailureSwallowed(r) == "DUPLICATE_EMAIL"

InsertFailureRethrown(r) == r.name

\* line 66: which rejection of the insert becomes a business failure
InsertFailureKind(r) ==
  IF r.code = DupKeyCode \/ (r.name = "MongoServerError" /\ r.code = DupKeyCode)
    THEN "DUPLICATE_EMAIL"
    ELSE r.name

\* line 103: parseInt(process.env.MAX_CONTACTS_PER_IP_24H, 10) || 5
contactIpLimit == OrDefault(ParseInt(env.MAX_CONTACTS_PER_IP_24H), DefaultContactIpLimit)

\* line 95: !subject || String(subject).trim().length < 3
SubjectRejected(subject) == subject = <<>> \/ Len(Trim(subject)) < SubjectMinLen

\* line 98: !message || String(message).trim().length < 10
MessageRejected(message) == message = <<>> \/ Len(Trim(message)) < MessageMinLen

ContactIpLimitExceeded(recentFromIP) == recentFromIP > contactIpLimit

\* line 105: recentFromIP >= ipLimit
ContactIpLimitReached(recentFromIP) == recentFromIP >= contactIpLimit

\* parameter defaults of the destructured argument
WithDefault(v) == IF v = Undefined THEN "unknown" ELSE v

Snapshot(a) ==
  [ count |-> Len(waitlist),
    present |-> findByEmail(waitlist, a.email) # {},
    recentFromIP |-> countRecentByIP(waitlist, a.ipAddress, now) ]

\* the call ends: it returns or throws
Finish(p, kind, position) ==
  /\ pc' = [pc EXCEPT ![p] = "done"]
  /\ result' = [result EXCEPT ![p] = [kind |-> kind, position |-> position]]

\* the call goes on to its next await, issuing a store operation
Await(p, label, query) ==
  /\ pc' = [pc EXCEPT ![p] = label]
  /\ queries' = [queries EXCEPT ![p] = Append(@, query)]
  /\ UNCHANGED result

\* addToWaitlist up to its first await (lines 29-38)
Call(p, a) ==
  /\ pc[p] = "idle"
  /\ op' = [op EXCEPT ![p] = "addToWaitlist"]
  /\ args' = [args EXCEPT ![p] = a]
  /\ pre' = [pre EXCEPT ![p] = Snapshot(a)]
  /\ inserted' = [inserted EXCEPT ![p] = 0]
  /\ IF NameRejected(a.name)
       THEN /\ Finish(p, "INVALID_NAME", 0)
            /\ UNCHANGED <<queries, overlapped>>
     ELSE IF EmailRejected(a.email)
       THEN /\ Finish(p, "INVALID_EMAIL", 0)
            /\ UNCHANGED <<queries, overlapped>>
     ELSE /\ Await(p, "count", "countWaitlist")
          /\ overlapped' =
               [q \in Procs |->
                  IF q = p THEN { r \in Procs \ {p} : pc[r] \in InFlight }
                  ELSE IF pc[q] \in InFlight THEN overlapped[q] \cup {p}
                  ELSE overlapped[q]]
  /\ UNCHANGED <<aside, env, now, waitlist, contacts, currentCount, raw, positions, prev>>

Request(n, e, ip, ua) ==
  [name |-> n, email |-> e, ipAddress |-> WithDefault(ip), userAgent |-> WithDefault(ua)]

\* a request of one of the concurrent clients
Start(p) ==
  \E n \in RaceNameInputs, e \in RaceEmailInputs, ip \in RaceIpInputs :
    Call(p, Request(n, e, ip, Undefined))

\* a request of one of the concurrent clients at the capacity boundary
StartCap(p) ==
  \E n \in RaceNameInputs, e \in CapEmailInputs, ip \in RaceIpInputs :
    Call(p, Request(n, e, ip, Undefined))

\* a request of the only client
StartSeq(p) ==
  \E n \in NameInputs, e \in EmailInputs, ip \in IpInputs, ua \in UaInputs :
    Call(p, Request(n, e, ip, ua))

\* a request of the end-to-end run: one address, well-formed arguments
StartRun(p) ==
  \E e \in RunEmailInputs :
    Call(p, Request(<<"J", "a", "n", "e", " ", "D", "o", "e">>, e, "1.2.3.4", "UA"))

\* countWaitlist resolves (lines 38-44)
CountStep(p) ==
  /\ pc[p] = "count"
  /\ currentCount' = [currentCount EXCEPT ![p] = countWaitlist(waitlist)]
  /\ IF CapacityReached(countWaitlist(waitlist))
       THEN Finish(p, "WAITLIST_FULL", 0) /\ UNCHANGED queries
       ELSE Await(p, "find", "findByEmail")
  /\ UNCHANGED <<aside, env, now, waitlist, contacts, op, args, raw, pre, overlapped,
                 inserted, positions, prev>>

\* findByEmail resolves (lines 44-51)
FindStep(p) ==
  /\ pc[p] = "find"
  /\ IF findByEmail(waitlist, args[p].email) # {}
       THEN Finish(p, "DUPLICATE_EMAIL", 0) /\ UNCHANGED queries
       ELSE Await(p, "ip", "countRecentByIP")
  /\ UNCHANGED <<aside, env, now, waitlist, contacts, op, args, currentCount, raw, pre,
                 overlapped, inserted, positions, prev>>

\* countRecentByIP resolves (lines 51-62)
IpStep(p) ==
  /\ pc[p] = "ip"
  /\ IF IpLimitReached(countRecentByIP(waitlist, args[p].ipAddress, now))
       THEN Finish(p, "IP_RATE_LIMIT", 0) /\ UNCHANGED queries
       ELSE Await(p, "insert", "insertWaitlistEntry")
  /\ UNCHANGED <<aside, env, now, waitlist, contacts, op, args, currentCount, raw, pre,
                 overlapped, inserted, positions, prev>>

\* insertWaitlistEntry resolves or rejects (lines 57-70)
InsertStep(p) ==
  /\ pc[p] = "insert"
  /\ \E doc \in { NewWaitlist(Trim(args[p].name), Trim(ToLowerCase(args[p].email)),
                              args[p].ipAddress, args[p].userAgent, now) } :
     \E r \in { insertWaitlistEntry(waitlist, doc) } :
        /\ waitlist' = r.store
        /\ inserted' = [inserted EXCEPT ![p] = Len(r.store) - Len(waitlist)]
        /\ IF r.ok
             THEN /\ Finish(p, "OK", Position(currentCount[p]))
                  /\ positions' =
                       Append(positions, [position |-> Position(currentCount[p]),
                                          alone |-> overlapped[p] = {}])
             ELSE /\ Finish(p, InsertFailureKind(r), 0)
                  /\ UNCHANGED positions
  /\ UNCHANGED <<aside, env, now, contacts, op, args, currentCount, raw, queries, pre,
                 overlapped, prev>>

\* the error of a store that is unreachable or timed out
StoreError == [ok |-> FALSE, name |-> "STORE_FAULT", code |-> 0]

\* a store round-trip rejects for a reason of the store's own; nothing was
\* written.  The awaits of lines 38, 44 and 51 are outside the try block and
\* the error propagates; the await of line 57 is inside it and the error
\* passes through the catch of lines 64-70.
StoreFault(p) ==
  /\ pc[p] \in InFlight
  /\ IF pc[p] = "insert"
       THEN Finish(p, InsertFailureKind(StoreError), 0)
       ELSE Finish(p, StoreError.name, 0)
  /\ UNCHANGED <<aside, env, now, waitlist, contacts, op, args, currentCount, raw, queries,
                 pre, overlapped, inserted, positions, prev>>

\* a call starts while other calls are in flight
Overlap(p) ==
  [q \in Procs |->
     IF q = p THEN { r \in Procs \ {p} : pc[r] \in InFlight }
     ELSE IF pc[q] \in InFlight THEN overlapped[q] \cup {p}
     ELSE overlapped[q]]

ContactSnapshot(a) ==
  [ count |-> Len(waitlist),
    present |-> findByEmail(waitlist, a.email) # {},
    recentFromIP |-> countContactsByIP(contacts, a.ipAddress, now),
    contacts |-> Len(contacts) ]

ContactCallMessageFirst(p, a) ==
  /\ pc[p] = "idle"
  /\ op' = [op EXCEPT ![p] = "addContactSubmission"]
  /\ args' = [args EXCEPT ![p] = a]
  /\ pre' = [pre EXCEPT ![p] = ContactSnapshot(a)]
  /\ inserted' = [inserted EXCEPT ![p] = 0]
  /\ IF NameRejected(a.name)
       THEN /\ Finish(p, "INVALID_NAME", 0)
            /\ UNCHANGED <<queries, overlapped>>
     ELSE IF EmailRejected(a.email)
       THEN /\ Finish(p, "INVALID_EMAIL", 0)
            /\ UNCHANGED <<queries, overlapped>>
     ELSE IF MessageRejected(a.message)
       THEN /\ Finish(p, "INVALID_MESSAGE", 0)
            /\ UNCHANGED <<queries, overlapped>>
     ELSE IF SubjectRejected(a.subject)
       THEN /\ Finish(p, "INVALID_SUBJECT", 0)
            /\ UNCHANGED <<queries, overlapped>>
     ELSE /\ Await(p, "contactIp", "countContactsByIP")
          /\ overlapped' = Overlap(p)
  /\ UNCHANGED <<aside, env, now, waitlist, contacts, currentCount, raw, positions, prev>>

\* addContactSubmission up to its first await (lines 88-104)
ContactCall(p, a) ==
  /\ pc[p] = "idle"
  /\ op' = [op EXCEPT ![p] = "addContactSubmission"]
  /\ args' = [args EXCEPT ![p] = a]
  /\ pre' = [pre EXCEPT ![p] = ContactSnapshot(a)]
  /\ inserted' = [inserted EXCEPT ![p] = 0]
  /\ IF NameRejected(a.name)
       THEN /\ Finish(p, "INVALID_NAME", 0)
            /\ UNCHANGED <<queries, overlapped>>
     ELSE IF EmailRejected(a.email)
       THEN /\ Finish(p, "INVALID_EMAIL", 0)
            /\ UNCHANGED <<queries, overlapped>>
     ELSE IF SubjectRejected(a.subject)
       THEN /\ Finish(p, "INVALID_SUBJECT", 0)
            /\ UNCHANGED <<queries, overlapped>>
     ELSE IF MessageRejected(a.message)
       THEN /\ Finish(p, "INVALID_MESSAGE", 0)
            /\ UNCHANGED <<queries, overlapped>>
     ELSE /\ Await(p, "contactIp", "countContactsByIP")
          /\ overlapped' = Overlap(p)
  /\ UNCHANGED <<aside, env, now, waitlist, contacts, currentCount, raw, positions, prev>>

ContactRequest(n, e, s, m, ip, ua) ==
  [ name |-> n, email |-> e, ipAddress |-> WithDefault(ip),
    userAgent |-> WithDefault(ua), subject |-> s, message |-> m ]

ContactIpStepAfterOthers(p) ==
  /\ pc[p] = "contactIp"
  /\ \A q \in Procs \ {p} : pc[q] \notin InFlight
  /\ IF ContactIpLimitReached(countContactsByIP(contacts, args[p].ipAddress, now))
       THEN Finish(p, "IP_RATE_LIMIT", 0) /\ UNCHANGED queries
       ELSE Await(p, "contactInsert", "insertContactEntry")
  /\ UNCHANGED <<aside, env, now, waitlist, contacts, op, args, currentCount, raw, pre,
                 overlapped, inserted, positions, prev>>

\* countContactsByIP resolves (lines 104-117)
ContactIpStep(p) ==
  /\ pc[p] = "contactIp"
  /\ IF ContactIpLimitReached(countContactsByIP(contacts, args[p].ipAddress, now))
       THEN Finish(p, "IP_RATE_LIMIT", 0) /\ UNCHANGED queries
       ELSE Await(p, "contactInsert", "insertContactEntry")
  /\ UNCHANGED <<aside, env, now, waitlist, contacts, op, args, currentCount, raw, pre,
                 overlapped, inserted, positions, prev>>

\* insertContactEntry resolves or rejects (lines 110-121); the catch rethrows
ContactInsertStep(p) ==
  /\ pc[p] = "contactInsert"
  /\ \E doc \in { NewContact(Trim(args[p].name), Trim(ToLowerCase(args[p].email)),
                             Trim(args[p].subject), Trim(args[p].message),
                             args[p].ipAddress, args[p].userAgent, now) } :
     \E r \in { insertContactEntry(contacts, doc) } :
        /\ contacts' = r.store
        /\ inserted' = [inserted EXCEPT ![p] = Len(r.store) - Len(contacts)]
        /\ IF r.ok THEN Finish(p, "OK", 0) ELSE Finish(p, r.name, 0)
  /\ UNCHANGED <<aside, env, now, waitlist, op, args, currentCount, raw, queries, pre,
                 overlapped, positions, prev>>

StatsSnapshot ==
  [ count |-> Len(waitlist),
    present |-> FALSE,
    recentFromIP |-> 0,
    contacts |-> Len(contacts) ]

\* getWaitlistStats up to the first await of getStats (business.js line 74,
\* persistence.js line 161)
StatsCall(p) ==
  /\ pc[p] = "idle"
  /\ op' = [op EXCEPT ![p] = "getWaitlistStats"]
  /\ args' = [args EXCEPT ![p] = NoArgs]
  /\ pre' = [pre EXCEPT ![p] = StatsSnapshot]
  /\ inserted' = [inserted EXCEPT ![p] = 0]
  /\ Await(p, "total", "countDocuments")
  /\ overlapped' = Overlap(p)
  /\ UNCHANGED <<aside, env, now, waitlist, contacts, currentCount, raw, positions, prev>>

\* the first countDocuments of getStats resolves (persistence.js lines 161-162)
TotalStep(p) ==
  /\ pc[p] = "total"
  /\ raw' = [raw EXCEPT ![p] = getStatsTotal(waitlist)]
  /\ Await(p, "recent", "countDocuments")
  /\ UNCHANGED <<aside, env, now, waitlist, contacts, op, args, currentCount, pre,
                 overlapped, inserted, positions, prev>>

\* the object getWaitlistStats returns (business.js lines 75-80)
StatsResult(total, recent, t) ==
  [ totalSignups |-> total,
    recentSignups24h |-> recent,
    capacity |-> maxEntries,
    lastUpdated |-> t ]

\* the second countDocuments resolves and getWaitlistStats returns
\* (persistence.js lines 162-165, business.js lines 75-80)
RecentStep(p) ==
  /\ pc[p] = "recent"
  /\ pc' = [pc EXCEPT ![p] = "done"]
  /\ result' = [result EXCEPT ![p] =
                  [ kind |-> "OK", position |-> 0,
                    value |-> StatsResult(raw[p], getStatsRecent(waitlist, now), now) ]]
  /\ UNCHANGED <<aside, env, now, waitlist, contacts, op, args, currentCount, raw, queries,
                 pre, overlapped, inserted, positions, prev>>

\* the request is over: its locals are gone
Forget(p) ==
  /\ pc' = [pc EXCEPT ![p] = "idle"]
  /\ op' = [op EXCEPT ![p] = "none"]
  /\ args' = [args EXCEPT ![p] = NoArgs]
  /\ result' = [result EXCEPT ![p] = NoResult]
  /\ currentCount' = [currentCount EXCEPT ![p] = 0]
  /\ raw' = [raw EXCEPT ![p] = 0]
  /\ queries' = [queries EXCEPT ![p] = <<>>]
  /\ pre' = [pre EXCEPT ![p] = NoPre]
  /\ overlapped' = [overlapped EXCEPT ![p] = {}]
  /\ inserted' = [inserted EXCEPT ![p] = 0]

\* the caller has the outcome; the process can serve its next request
Return(p) ==
  /\ pc[p] = "done"
  /\ Forget(p)
  /\ UNCHANGED <<aside, env, now, waitlist, contacts, positions, prev>>

\* the caller has the outcome and will call again: the call is noted as the
\* caller's previous one
ReturnNoted(p) ==
  /\ pc[p] = "done"
  /\ Forget(p)
  /\ prev' = [op |-> op[p], args |-> args[p], kind |-> result[p].kind, pre |-> pre[p]]
  /\ UNCHANGED <<aside, env, now, waitlist, contacts, positions>>

\* ------------------------------------------------------------ server.js
\* the middleware pipeline of server.js as far as the session is concerned:
\* sessionMiddleware (line 141), sessionSecurity (line 144), the routes (line
\* 154), of which the API router runs extractClientInfo (routes/api.js line 25)
SessionIds == 1..MaxSessions

ClientIps == {"1.2.3.4", "5.6.7.8"}

NoMetadata == [set |-> FALSE, ip |-> Undefined]
NoClientInfo == [set |-> FALSE, ip |-> Undefined]

\* a session id that was never issued / a session as express-session creates it
NoSession ==
  [state |-> "free", signupAttempts |-> <<>>, metadata |-> NoMetadata, createdFor |-> Undefined]
NewSession(ip) ==
  [state |-> "live", signupAttempts |-> <<>>, metadata |-> NoMetadata, createdFor |-> ip]

NoReq ==
  [ stage |-> "none", ip |-> Undefined, cookie |-> 0, sessionID |-> 0,
    clientInfo |-> NoClientInfo, existing |-> FALSE, recorded |-> Undefined,
    creator |-> Undefined ]

FreeIds == { sid \in SessionIds : sessions[sid].state = "free" }
IssuedIds == SessionIds \ FreeIds

\* a session id that was not issued before
FreshId == CHOOSE sid \in FreeIds : \A t \in FreeIds : sid <= t

\* req.clientInfo?.ip
ClientIp(r) == IF r.clientInfo.set THEN r.clientInfo.ip ELSE Undefined

\* a request of a client reaches the server, with or without a session cookie
Arrive ==
  /\ req.stage = "none"
  /\ FreeIds # {}
  /\ \E ip \in ClientIps, c \in {0} \cup IssuedIds :
       req' = [NoReq EXCEPT !.stage = "sessionMiddleware", !.ip = ip, !.cookie = c]
  /\ UNCHANGED <<core, sessions, process, retry>>

\* express-session: the session of the cookie is loaded, or a new one is made
sessionMiddleware ==
  /\ req.stage = "sessionMiddleware"
  /\ IF req.cookie # 0 /\ sessions[req.cookie].state = "live"
       THEN /\ req' = [req EXCEPT !.stage = "sessionSecurity",
                                  !.sessionID = req.cookie,
                                  !.existing = TRUE,
                                  !.recorded = sessions[req.cookie].metadata.ip,
                                  !.creator = sessions[req.cookie].createdFor]
            /\ UNCHANGED sessions
       ELSE /\ req' = [req EXCEPT !.stage = "sessionSecurity", !.sessionID = FreshId]
            /\ sessions' = [sessions EXCEPT ![FreshId] = NewSession(req.ip)]
  /\ UNCHANGED <<core, process, retry>>

\* lines 131-133: if (!req.session.signupAttempts) req.session.signupAttempts = 0
WithAttempts(s) ==
  IF s.signupAttempts = <<>> \/ s.signupAttempts = <<0>>
    THEN [s EXCEPT !.signupAttempts = <<0>>]
    ELSE s

\* lines 136-142: if (!req.session.metadata) req.session.metadata = {ip: req.clientInfo?.ip, ...}
WithMetadata(s, r) ==
  IF ~s.metadata.set
    THEN [s EXCEPT !.metadata = [set |-> TRUE, ip |-> ClientIp(r)]]
    ELSE s

\* line 145: req.session.metadata.ip !== req.clientInfo?.ip
HijackSuspected(s, r) == s.metadata.ip # ClientIp(r)

\* sessionSecurity (security.js lines 129-163), the callback of regenerate
\* included: next() is called whether regenerate failed or not
sessionSecurity ==
  /\ req.stage = "sessionSecurity"
  /\ \E s \in { WithMetadata(WithAttempts(sessions[req.sessionID]), req) } :
       IF HijackSuspected(s, req)
         THEN \E err \in BOOLEAN :
                IF err
                  THEN /\ sessions' = [sessions EXCEPT ![req.sessionID] = s]
                       /\ req' = [req EXCEPT !.stage = "routes"]
                  ELSE /\ sessions' = [sessions EXCEPT
                                         ![req.sessionID] = [s EXCEPT !.state = "destroyed"],
                                         ![FreshId] = NewSession(req.ip)]
                       /\ req' = [req EXCEPT !.stage = "routes", !.sessionID = FreshId]
         ELSE /\ sessions' = [sessions EXCEPT ![req.sessionID] = s]
              /\ req' = [req EXCEPT !.stage = "routes"]
  /\ UNCHANGED <<core, process, retry>>

\* configureRoutes: the request is routed to the home routes or to the API
\* router, whose first middleware after the headers is extractClientInfo
\* (security.js lines 9-28)
extractClientInfo(r) == [r EXCEPT !.clientInfo = [set |-> TRUE, ip |-> r.ip]]

Route ==
  /\ req.stage = "routes"
  /\ \E api \in BOOLEAN :
       req' = [(IF api THEN extractClientInfo(req) ELSE req) EXCEPT !.stage = "handler"]
  /\ UNCHANGED <<core, sessions, process, retry>>

\* the route handler runs on req.session
Handle ==
  /\ req.stage = "handler"
  /\ req' = [req EXCEPT !.stage = "handled"]
  /\ UNCHANGED <<core, sessions, process, retry>>

\* the response is sent
Respond ==
  /\ req.stage = "handled"
  /\ req' = NoReq
  /\ UNCHANGED <<core, sessions, process, retry>>

\* ------------------------------------------------- shutdown of the process
\* the process runs until process.exit is called
Running == -1

\* process.exit(code): nothing runs afterwards
Exit(code) == exitCode' = code

\* mongoose.connection.close() is called (database.js line 69)
CloseCalled(state) == IF state = "connected" THEN "closing" ELSE state

\* a client connects and sends a request
Accept ==
  /\ exitCode = Running
  /\ server = "listening"
  /\ conns < MaxConns
  /\ conns' = conns + 1
  /\ UNCHANGED <<core, web, retry, signal, server, db, timer, dbListener, shutdownPc, exitCode>>

\* a connection ends
Disconnect ==
  /\ exitCode = Running
  /\ conns > 0
  /\ conns' = conns - 1
  /\ UNCHANGED <<core, web, retry, signal, server, db, timer, dbListener, shutdownPc, exitCode>>

\* the events gracefulShutdown is registered for (server.js lines 212-225);
\* database.js listens to the two signals only
Signals == {"SIGTERM", "SIGINT"}
Faults == {"UNCAUGHT_EXCEPTION", "UNHANDLED_REJECTION"}

\* SIGTERM or SIGINT arrives, or an exception or rejection is left unhandled.
\* The listeners of a signal run in the order in which they were registered:
\* the one of database.js (setupEventListeners, lines 55-63, registered by
\* connect() at server.js line 169) up to its await of disconnect(), then
\* gracefulShutdown of server.js (lines 187-209), which calls server.close and
\* arms the force-close timer
Signal ==
  /\ exitCode = Running
  /\ signal = "none"
  /\ \E sig \in Signals \cup Faults :
       /\ signal' = sig
       /\ db' = IF sig \in Signals THEN CloseCalled(db) ELSE db
       /\ dbListener' = IF sig \in Signals THEN "disconnect" ELSE dbListener
  /\ server' = "closing"
  /\ timer' = "armed"
  /\ shutdownPc' = "close"
  /\ UNCHANGED <<core, web, retry, conns, exitCode>>

\* the HTTP server has closed its last connection: the callback of
\* server.close runs up to its await of databaseConfig.disconnect()
\* (server.js lines 191-196)
ServerClosed ==
  /\ exitCode = Running
  /\ server = "closing"
  /\ conns = 0
  /\ server' = "closed"
  /\ db' = CloseCalled(db)
  /\ shutdownPc' = "disconnect"
  /\ UNCHANGED <<core, web, retry, signal, conns, timer, dbListener, exitCode>>

\* mongoose.connection.close() settles; disconnect() catches a rejection
\* (database.js lines 68-74)
DbClosed ==
  /\ exitCode = Running
  /\ db = "closing"
  /\ \E ok \in BOOLEAN : db' = IF ok THEN "closed" ELSE "failed"
  /\ UNCHANGED <<core, web, retry, signal, server, conns, timer, dbListener, shutdownPc, exitCode>>

\* the listener of database.js resumes after disconnect(): process.exit(0)
\* (lines 55-63)
DbListenerExits ==
  /\ exitCode = Running
  /\ dbListener = "disconnect"
  /\ db \in {"closed", "failed"}
  /\ dbListener' = "done"
  /\ Exit(0)
  /\ UNCHANGED <<core, web, retry, signal, server, conns, db, timer, shutdownPc>>

\* the callback of server.close resumes after disconnect(): process.exit(0)
\* (server.js lines 196-200)
ShutdownExits ==
  /\ exitCode = Running
  /\ shutdownPc = "disconnect"
  /\ db \in {"closed", "failed"}
  /\ shutdownPc' = "done"
  /\ Exit(0)
  /\ UNCHANGED <<core, web, retry, signal, server, conns, db, timer, dbListener>>

\* the force-close timer fires: process.exit(1) (server.js lines 205-208)
TimerFires ==
  /\ exitCode = Running
  /\ timer = "armed"
  /\ timer' = "fired"
  /\ Exit(1)
  /\ UNCHANGED <<core, web, retry, signal, server, conns, db, dbListener, shutdownPc>>

\* --------------------------------------------- utils/common.js
\* retryWithBackoff(fn, maxRetries, baseDelay), lines 215-234
RetryInputs == 0..MaxRetries
BaseDelayInputs == {0, 1, 1000}

\* what fn does when it is invoked: it returns a value or throws an error
FnValue == "value"
FnErrors == {"E1", "E2"}
NoError == "<undefined>"

NoRetry ==
  [ pc |-> "idle", maxRetries |-> 0, baseDelay |-> 0, i |-> 0,
    lastError |-> NoError, calls |-> <<>>, sleeps |-> <<>>, outcome |-> NoError ]

RECURSIVE Pow2(_)
Pow2(n) == IF n = 0 THEN 1 ELSE 2 * Pow2(n - 1)

\* line 228: baseDelay * Math.pow(2, i)
Delay(baseDelay, n) == baseDelay * Pow2(n)

ExhaustedNever(n, maxRetries) == FALSE

\* line 224: i === maxRetries
Exhausted(n, maxRetries) == n = maxRetries

\* the loop test i <= maxRetries (line 218) and what follows it: the next
\* invocation of fn, or throw lastError after the loop (line 233)
LoopTest(r) ==
  IF r.i <= r.maxRetries
    THEN [r EXCEPT !.pc = "fn"]
    ELSE [r EXCEPT !.pc = "thrown", !.outcome = r.lastError]

\* retryWithBackoff is called: let lastError; i = 0; the loop test
RetryCall ==
  /\ retry.pc = "idle"
  /\ \E m \in RetryInputs, b \in BaseDelayInputs :
       retry' = LoopTest([NoRetry EXCEPT !.maxRetries = m, !.baseDelay = b])
  /\ UNCHANGED <<core, web, process>>

\* await fn() settles (lines 219-229): return its value, or keep the error and
\* either throw it or go to sleep
FnSettles ==
  /\ retry.pc = "fn"
  /\ \E r \in {FnValue} \cup FnErrors :
       retry' =
         IF r = FnValue
           THEN [retry EXCEPT !.pc = "returned", !.outcome = r,
                              !.calls = Append(@, r)]
         ELSE IF Exhausted(retry.i, retry.maxRetries)
           THEN [retry EXCEPT !.pc = "thrown", !.outcome = r, !.lastError = r,
                              !.calls = Append(@, r)]
         ELSE [retry EXCEPT !.pc = "sleep", !.lastError = r,
                            !.calls = Append(@, r),
                            !.sleeps = Append(@, Delay(retry.baseDelay, retry.i))]
  /\ UNCHANGED <<core, web, process>>

\* await sleep(delay) resolves: i++ and the loop test
SleepDone ==
  /\ retry.pc = "sleep"
  /\ retry' = LoopTest([retry EXCEPT !.i = @ + 1])
  /\ UNCHANGED <<core, web, process>>

\* time passes
Tick ==
  /\ now < MaxTime
  /\ now' = now + 1
  /\ UNCHANGED <<aside, env, waitlist, contacts, pc, op, args, currentCount, raw, result,
                 queries, pre, overlapped, inserted, positions, prev>>

InitWith(envInputs) ==
  /\ env \in envInputs
  /\ sessions = [sid \in SessionIds |-> NoSession]
  /\ req = NoReq
  /\ signal = "none"
  /\ server = "listening"
  /\ conns = 0
  /\ db = "connected"
  /\ timer = "off"
  /\ dbListener = "idle"
  /\ shutdownPc = "idle"
  /\ exitCode = Running
  /\ retry = NoRetry
  /\ now = 0
  /\ waitlist = <<>>
  /\ contacts = <<>>
  /\ pc = [p \in Procs |-> "idle"]
  /\ op = [p \in Procs |-> "none"]
  /\ args = [p \in Procs |-> NoArgs]
  /\ currentCount = [p \in Procs |-> 0]
  /\ raw = [p \in Procs |-> 0]
  /\ positions = <<>>
  /\ prev = NoPrev
  /\ result = [p \in Procs |-> NoResult]
  /\ queries = [p \in Procs |-> <<>>]
  /\ pre = [p \in Procs |-> NoPre]
  /\ overlapped = [p \in Procs |-> {}]
  /\ inserted = [p \in Procs |-> 0]

\* concurrent clients
Init == InitWith(RaceEnvInputs)

Next ==
  \/ \E p \in Procs : Start(p)
  \/ \E p \in Procs : CountStep(p)
  \/ \E p \in Procs : FindStep(p)
  \/ \E p \in Procs : IpStep(p)
  \/ \E p \in Procs : InsertStep(p)
  \/ \E p \in Procs : StoreFault(p)
  \/ \E p \in Procs : Return(p)

Spec == Init /\ [][Next]_vars

\* concurrent clients at the capacity boundary, the store answering every
\* round-trip
InitCap == InitWith(CapEnvInputs)

NextCap ==
  \/ \E p \in Procs : StartCap(p)
  \/ \E p \in Procs : CountStep(p)
  \/ \E p \in Procs : FindStep(p)
  \/ \E p \in Procs : IpStep(p)
  \/ \E p \in Procs : InsertStep(p)
  \/ \E p \in Procs : Return(p)

SpecCap == InitCap /\ [][NextCap]_vars

\* one client whose calls follow one another, and the clock
InitSeq == InitWith(EnvInputs)

NextSeq ==
  \/ StartSeq(1)
  \/ CountStep(1)
  \/ FindStep(1)
  \/ IpStep(1)
  \/ InsertStep(1)
  \/ StoreFault(1)
  \/ Return(1)
  \/ Tick

SpecSeq == InitSeq /\ [][NextSeq]_vars

\* the end-to-end run: default configuration, one client, one address
InitRun ==
  InitWith([MAX_WAITLIST_ENTRIES : {Unset}, MAX_SIGNUPS_PER_IP_24H : {Unset},
            MAX_CONTACTS_PER_IP_24H : {Unset}])

NextRun ==
  \/ StartRun(1)
  \/ CountStep(1)
  \/ FindStep(1)
  \/ IpStep(1)
  \/ InsertStep(1)
  \/ Return(1)

SpecRun == InitRun /\ [][NextRun]_vars

\* a waitlist request of the client that submits again
StartAgain(p) ==
  \E n \in AgainNameInputs, e \in AgainEmailInputs :
    Call(p, Request(n, e, "1.2.3.4", Undefined))

\* a contact request of the client that submits again
ContactAgain(p) ==
  \E n \in AgainNameInputs, e \in AgainContactEmailInputs,
     s \in SubjectInputs, m \in MessageInputs :
    ContactCall(p, ContactRequest(n, e, s, m, "1.2.3.4", Undefined))

\* one client that submits again and again, and the clock
InitAgain == InitWith(AgainEnvInputs)

NextAgain ==
  \/ StartAgain(1)
  \/ CountStep(1)
  \/ FindStep(1)
  \/ IpStep(1)
  \/ InsertStep(1)
  \/ ContactAgain(1)
  \/ ContactIpStep(1)
  \/ ContactInsertStep(1)
  \/ ReturnNoted(1)
  \/ Tick

SpecAgain == InitAgain /\ [][NextAgain]_vars

\* a waitlist request of a client that signs up while others read the statistics
StartStats(p) ==
  \E n \in RaceNameInputs, e \in StatsEmailInputs, ip \in RaceIpInputs :
    Call(p, Request(n, e, ip, Undefined))

\* concurrent clients of addToWaitlist and getWaitlistStats
InitStats == InitWith(StatsEnvInputs)

NextStats ==
  \/ \E p \in Procs : StartStats(p)
  \/ \E p \in Procs : CountStep(p)
  \/ \E p \in Procs : FindStep(p)
  \/ \E p \in Procs : IpStep(p)
  \/ \E p \in Procs : InsertStep(p)
  \/ \E p \in Procs : StatsCall(p)
  \/ \E p \in Procs : TotalStep(p)
  \/ \E p \in Procs : RecentStep(p)
  \/ \E p \in Procs : Return(p)

SpecStats == InitStats /\ [][NextStats]_vars

\* a request of a client whose address nobody has submitted so far or is
\* submitting now
StartPos(p) ==
  \E n \in RaceNameInputs, e \in CapEmailInputs, ip \in RaceIpInputs :
    /\ findByEmail(waitlist, e) = {}
    /\ \A q \in Procs : pc[q] \in InFlight => args[q].email # e
    /\ Call(p, Request(n, e, ip, Undefined))

\* concurrent clients with different addresses that are told their position
InitPos == InitWith(PosEnvInputs)

NextPos ==
  \/ \E p \in Procs : StartPos(p)
  \/ \E p \in Procs : CountStep(p)
  \/ \E p \in Procs : FindStep(p)
  \/ \E p \in Procs : IpStep(p)
  \/ \E p \in Procs : InsertStep(p)
  \/ \E p \in Procs : Return(p)

SpecPos == InitPos /\ [][NextPos]_vars

\* concurrent clients behind one address with a limit of one signup a day,
\* each making one call
InitIp == InitWith(IpEnvInputs)

NextIp ==
  \/ \E p \in Procs : StartPos(p)
  \/ \E p \in Procs : CountStep(p)
  \/ \E p \in Procs : FindStep(p)
  \/ \E p \in Procs : IpStep(p)
  \/ \E p \in Procs : InsertStep(p)
  \/ Tick

SpecIp == InitIp /\ [][NextIp]_vars

\* a waitlist request of a client whose round-trips are all answered
StartLive(p) ==
  Call(p, Request(<<"a", "b">>, <<"a", "@", "b", ".", "c">>, "1.2.3.4", Undefined))

\* a contact request of a client whose round-trips are all answered
ContactLive(p) ==
  ContactCall(p, ContactRequest(<<"a", "b">>, <<"a", "@", "b", ".", "c">>,
                                <<"H", "i", "!">>,
                                <<"p", "l", "e", "a", "s", "e", " ", "c", "a", "l", "l">>,
                                "1.2.3.4", Undefined))

\* the store answers the round-trip the call of p is suspended at
Resolve(p) ==
  \/ CountStep(p)
  \/ FindStep(p)
  \/ IpStep(p)
  \/ InsertStep(p)
  \/ ContactIpStep(p)
  \/ ContactInsertStep(p)

\* the round-trip of p returns: the store answers or rejects
RoundTrip(p) == StoreFault(p) \/ Resolve(p)

\* concurrent clients, each making one call of addToWaitlist or of
\* addContactSubmission, over a store whose every round-trip eventually returns
InitLive == InitWith(LiveEnvInputs)

NextLive ==
  \/ \E p \in Procs : StartLive(p)
  \/ \E p \in Procs : ContactLive(p)
  \/ \E p \in Procs : CountStep(p)
  \/ \E p \in Procs : FindStep(p)
  \/ \E p \in Procs : IpStep(p)
  \/ \E p \in Procs : InsertStep(p)
  \/ \E p \in Procs : ContactIpStep(p)
  \/ \E p \in Procs : ContactInsertStep(p)
  \/ \E p \in Procs : StoreFault(p)

SpecLive ==
  /\ InitLive
  /\ [][NextLive]_vars
  /\ \A p \in Procs : WF_vars(RoundTrip(p))

\* concurrent clients of the three operations, each calling again and again
InitAll == InitWith(LiveEnvInputs)

NextAll ==
  \/ \E p \in Procs : StartLive(p)
  \/ \E p \in Procs : ContactLive(p)
  \/ \E p \in Procs : StatsCall(p)
  \/ \E p \in Procs : CountStep(p)
  \/ \E p \in Procs : FindStep(p)
  \/ \E p \in Procs : IpStep(p)
  \/ \E p \in Procs : InsertStep(p)
  \/ \E p \in Procs : ContactIpStep(p)
  \/ \E p \in Procs : ContactInsertStep(p)
  \/ \E p \in Procs : TotalStep(p)
  \/ \E p \in Procs : RecentStep(p)
  \/ \E p \in Procs : Return(p)

SpecAll == InitAll /\ [][NextAll]_vars

\* clients with and without a session cookie, one request in the pipeline
InitSession == InitWith(StatsEnvInputs)

NextSession ==
  \/ Arrive
  \/ sessionMiddleware
  \/ sessionSecurity
  \/ Route
  \/ Handle
  \/ Respond

SpecSession == InitSession /\ [][NextSession]_vars

\* the server with clients connecting, then a signal
InitShutdown == InitWith(StatsEnvInputs)

NextShutdown ==
  \/ Accept
  \/ Disconnect
  \/ Signal
  \/ ServerClosed
  \/ DbClosed
  \/ DbListenerExits
  \/ ShutdownExits
  \/ TimerFires

SpecShutdown ==
  /\ InitShutdown
  /\ [][NextShutdown]_vars
  /\ WF_vars(TimerFires)

\* one call of retryWithBackoff with a function that settles whenever invoked
InitRetry == InitWith(StatsEnvInputs)

NextRetry ==
  \/ RetryCall
  \/ FnSettles
  \/ SleepDone

SpecRetry ==
  /\ InitRetry
  /\ [][NextRetry]_vars
  /\ WF_vars(FnSettles)
  /\ WF_vars(SleepDone)

TypeOK ==
  /\ now \in 0..MaxTime
  /\ \A p \in Procs : pc[p] \in InFlight \cup {"idle", "done"}

\* ------------------------------------------------------------------ claims
Finished(p) == pc[p] = "done" /\ result[p].kind # "STORE_FAULT"

NameLongEnough(p) == Len(Trim(args[p].name)) >= NameMinLen
NameFits(p) == Len(Trim(args[p].name)) <= NameMaxLen
EmailShaped(p) == EmailRegexTest(args[p].email)

\* the collection as it was before the call's own insert
Before(p) == SubSeq(waitlist, 1, Len(waitlist) - inserted[p])

\* the call met a store in which nothing but its own arguments decides
Admissible(p) ==
  /\ overlapped[p] = {}
  /\ NameLongEnough(p)
  /\ EmailShaped(p)
  /\ pre[p].count < maxEntries
  /\ ~pre[p].present
  /\ pre[p].recentFromIP < ipLimit

Admitted(p) ==
  /\ result[p].kind = "OK"
  /\ result[p].position = pre[p].count + 1
  /\ \E i \in findByEmail(waitlist, args[p].email) :
       waitlist[i].email = NormalizeEmail(args[p].email)

\* C1 as stated: a call with a name of at least 2 characters, a well-shaped
\* new email, a store below capacity and an address below its limit succeeds
\* with position = count before + 1 and its email is then found.
C1_Original == \A p \in Procs : Finished(p) /\ Admissible(p) => Admitted(p)

\* C1 amended: the same, for names of at most 50 characters after trimming
\* and a non-empty address and user agent, which the schema requires.
C1_Admission ==
  \A p \in Procs :
    ( /\ Finished(p) /\ Admissible(p) /\ NameFits(p)
      /\ args[p].ipAddress # "" /\ args[p].userAgent # "" )
    => Admitted(p)

C1_Witness ==
  \E p \in Procs :
    /\ Finished(p) /\ Admissible(p) /\ result[p].kind = "OK"
    /\ result[p].position = 2
    /\ args[p].email = <<"A", "@", "b", ".", "c">>
    /\ args[p].name = <<" ", "a", "b">>

\* C2: no two entries of the collection have the same email, compared after
\* lowercasing and trimming, whatever the interleaving of the calls.
C2_UniqueEmails ==
  \A i, j \in 1..Len(waitlist) :
    i # j => NormalizeEmail(waitlist[i].email) # NormalizeEmail(waitlist[j].email)

C2_Witness ==
  \E p, q \in Procs :
    /\ p # q /\ pc[p] = "done" /\ pc[q] = "done"
    /\ q \in overlapped[p] /\ p \in overlapped[q]
    /\ args[p].email # args[q].email
    /\ NormalizeEmail(args[p].email) = NormalizeEmail(args[q].email)
    /\ Len(queries[p]) = 4 /\ Len(queries[q]) = 4
    /\ result[p].kind = "OK" /\ result[q].kind = "DUPLICATE_EMAIL"

\* two calls with the same normalized email that ran concurrently, each
\* admissible when it started, and no third call inserted that email
SameEmailRace(p, q) ==
  /\ p # q /\ Finished(p) /\ Finished(q)
  /\ q \in overlapped[p] /\ p \in overlapped[q]
  /\ NormalizeEmail(args[p].email) = NormalizeEmail(args[q].email)
  /\ \A r \in {p, q} :
       /\ NameLongEnough(r) /\ NameFits(r) /\ EmailShaped(r)
       /\ pre[r].count < maxEntries
       /\ ~pre[r].present
       /\ pre[r].recentFromIP < ipLimit
  /\ inserted[p] + inserted[q] = Cardinality(findByEmail(waitlist, args[p].email))

OneWinsOtherDuplicate(p, q) ==
  \/ result[p].kind = "OK" /\ result[q].kind = "DUPLICATE_EMAIL"
  \/ result[q].kind = "OK" /\ result[p].kind = "DUPLICATE_EMAIL"

\* C3 as stated: of two concurrent admissible calls with the same normalized
\* email exactly one succeeds and the other fails with DUPLICATE_EMAIL.
C3_Original ==
  \A p, q \in Procs : SameEmailRace(p, q) => OneWinsOtherDuplicate(p, q)

\* C3 amended: the same when the winner's entry leaves the store below the
\* capacity and the loser's address below its limit; the loser's failure is
\* always a business failure, never the raw duplicate-key error.
C3_RaceLoser ==
  \A p, q \in Procs :
    SameEmailRace(p, q) =>
      /\ result[p].kind \in BusinessKinds \cup {"OK"}
      /\ result[q].kind \in BusinessKinds \cup {"OK"}
      /\ ( /\ Len(waitlist) < maxEntries
           /\ countRecentByIP(waitlist, args[p].ipAddress, now) < ipLimit
           /\ countRecentByIP(waitlist, args[q].ipAddress, now) < ipLimit )
         => OneWinsOtherDuplicate(p, q)

C3_Witness ==
  \E p, q \in Procs :
    /\ SameEmailRace(p, q)
    /\ Len(waitlist) < maxEntries
    /\ countRecentByIP(waitlist, args[q].ipAddress, now) < ipLimit
    /\ result[p].kind = "OK"
    /\ result[q].kind = "DUPLICATE_EMAIL"
    /\ queries[q] = <<"countWaitlist", "findByEmail", "countRecentByIP", "insertWaitlistEntry">>

\* C4: a failing call reports the first failing check of the order name,
\* email, capacity, duplicate, per-address limit, and it has issued the store
\* operations of the checks up to that one and no later one.
C4_FirstFailure ==
  \A p \in Procs :
    Finished(p) =>
      LET nameBad == ~NameLongEnough(p)
          emailBad == ~EmailShaped(p)
          full == pre[p].count >= maxEntries
          dup == pre[p].present
          limited == countRecentByIP(Before(p), args[p].ipAddress, now) >= ipLimit
      IN /\ nameBad =>
              result[p].kind = "INVALID_NAME" /\ queries[p] = <<>>
         /\ ~nameBad /\ emailBad =>
              result[p].kind = "INVALID_EMAIL" /\ queries[p] = <<>>
         /\ ~nameBad /\ ~emailBad /\ full =>
              result[p].kind = "WAITLIST_FULL" /\ queries[p] = <<"countWaitlist">>
         /\ ~nameBad /\ ~emailBad /\ ~full /\ dup =>
              /\ result[p].kind = "DUPLICATE_EMAIL"
              /\ queries[p] = <<"countWaitlist", "findByEmail">>
         /\ ~nameBad /\ ~emailBad /\ ~full /\ ~dup /\ limited =>
              /\ result[p].kind = "IP_RATE_LIMIT"
              /\ queries[p] = <<"countWaitlist", "findByEmail", "countRecentByIP">>
         /\ result[p].kind = "IP_RATE_LIMIT" => pre[p].recentFromIP >= ipLimit

C4_Witness ==
  \E p \in Procs :
    /\ Finished(p)
    /\ ~NameLongEnough(p) /\ ~EmailShaped(p)
    /\ pre[p].count >= maxEntries
    /\ pre[p].recentFromIP >= ipLimit
    /\ result[p].kind = "INVALID_NAME"

\* C5: a call adds exactly one entry when it succeeds and none when it fails
\* in any way, it issues at most one insert, and the collection changes only
\* by the one entry a succeeding call appends.
C5_Effect ==
  /\ [](\A p \in Procs :
          /\ pc[p] = "done" => inserted[p] = (IF result[p].kind = "OK" THEN 1 ELSE 0)
          /\ Cardinality({ i \in 1..Len(queries[p]) :
                             queries[p][i] = "insertWaitlistEntry" }) <= 1)
  /\ [][ waitlist' # waitlist =>
           /\ Len(waitlist') = Len(waitlist) + 1
           /\ SubSeq(waitlist', 1, Len(waitlist)) = waitlist
           /\ \E p \in Procs :
                pc[p] = "insert" /\ pc'[p] = "done" /\ result'[p].kind = "OK" ]_vars

C5_Witness ==
  \E p, q \in Procs :
    /\ pc[p] = "done" /\ pc[q] = "done"
    /\ result[p].kind = "OK" /\ inserted[p] = 1
    /\ result[q].kind = "STORE_FAULT" /\ inserted[q] = 0
    /\ Len(queries[q]) = 4
    /\ Len(waitlist) = 1

\* C6: a call with a valid name and email that meets a store holding at
\* least the capacity fails with WAITLIST_FULL and inserts nothing, and with
\* calls that do not overlap the collection never exceeds the capacity.
C6_Capacity ==
  /\ \A p \in Procs :
       ( /\ Finished(p) /\ NameLongEnough(p) /\ EmailShaped(p)
         /\ pre[p].count >= maxEntries )
       => /\ result[p].kind = "WAITLIST_FULL"
          /\ inserted[p] = 0
          /\ Len(waitlist) = pre[p].count
  /\ Len(waitlist) <= maxEntries

C6_Witness ==
  \E p \in Procs :
    /\ Finished(p)
    /\ maxEntries = 1 /\ Len(waitlist) = 1
    /\ ~pre[p].present
    /\ result[p].kind = "WAITLIST_FULL"

\* calls that have passed the capacity check and not yet inserted or failed
PastCapacityCheck == { p \in Procs : pc[p] \in {"find", "ip", "insert"} }

\* C7: with at most NumProcs calls in flight the collection never holds more
\* than capacity + NumProcs - 1 entries, the calls past their capacity check
\* counted as the entries they may still add.
C7_Overshoot ==
  /\ Len(waitlist) <= maxEntries + (NumProcs - 1)
  /\ Len(waitlist) >= maxEntries =>
       Len(waitlist) + Cardinality(PastCapacityCheck) <= maxEntries + (NumProcs - 1)

C7_Witness ==
  /\ NumProcs > 1
  /\ Len(waitlist) = maxEntries + (NumProcs - 1)

AtIpLimit(p) ==
  /\ pre[p].recentFromIP >= ipLimit
  /\ countRecentByIP(Before(p), args[p].ipAddress, now) >= ipLimit

\* C9 as stated: once an address has reached its limit, its next attempt
\* fails with IP_RATE_LIMIT whatever the email.
C9_Original ==
  \A p \in Procs :
    ( /\ Finished(p) /\ NameLongEnough(p)
      /\ pre[p].count < maxEntries
      /\ AtIpLimit(p) )
    => result[p].kind = "IP_RATE_LIMIT"

\* C9 amended: the next attempt of that address fails with IP_RATE_LIMIT when
\* its email is well-shaped and not registered; a malformed email fails with
\* INVALID_EMAIL and a registered one with DUPLICATE_EMAIL, as those checks
\* come first.  An admissible attempt from another address succeeds.
C9_PerIpLimit ==
  \A p \in Procs :
    /\ ( /\ Finished(p) /\ NameLongEnough(p)
         /\ pre[p].count < maxEntries
         /\ AtIpLimit(p) )
       => /\ ~EmailShaped(p) => result[p].kind = "INVALID_EMAIL"
          /\ EmailShaped(p) /\ pre[p].present => result[p].kind = "DUPLICATE_EMAIL"
          /\ EmailShaped(p) /\ ~pre[p].present => result[p].kind = "IP_RATE_LIMIT"
    /\ ( /\ Finished(p) /\ Admissible(p) /\ NameFits(p)
         /\ args[p].ipAddress # "" /\ args[p].userAgent # ""
         /\ \E i \in 1..Len(Before(p)) :
              /\ waitlist[i].ipAddress # args[p].ipAddress
              /\ countRecentByIP(Before(p), waitlist[i].ipAddress, now) >= ipLimit )
       => result[p].kind = "OK"

C9_Witness ==
  \E p \in Procs :
    /\ Finished(p)
    /\ ipLimit = 2
    /\ AtIpLimit(p)
    /\ result[p].kind = "IP_RATE_LIMIT"

\* C10 as stated: from an empty store with the default configuration the
\* first admission has position 1, a repeated email fails with
\* DUPLICATE_EMAIL, three more new emails are admitted, the next one fails
\* with IP_RATE_LIMIT.
C10_Original ==
  \A p \in Procs :
    pc[p] = "done" =>
      /\ pre[p].count = 0 => result[p].kind = "OK" /\ result[p].position = 1
      /\ pre[p].present => result[p].kind = "DUPLICATE_EMAIL"
      /\ ~pre[p].present /\ pre[p].count \in 1..3 => result[p].kind = "OK"
      /\ ~pre[p].present /\ pre[p].count = 4 => result[p].kind = "IP_RATE_LIMIT"

\* C10 amended: two more new emails are admitted, with positions 2 and 3, and
\* every further new email from that address fails with IP_RATE_LIMIT, the
\* address having reached the limit of 3.
C10_Run ==
  /\ maxEntries = DefaultMaxEntries /\ ipLimit = DefaultIpLimit
  /\ Len(waitlist) <= DefaultIpLimit
  /\ \A p \in Procs :
       pc[p] = "done" =>
         /\ pre[p].count = 0 => result[p].kind = "OK" /\ result[p].position = 1
         /\ pre[p].present => result[p].kind = "DUPLICATE_EMAIL"
         /\ ~pre[p].present /\ pre[p].count \in 1..2 =>
              result[p].kind = "OK" /\ result[p].position = pre[p].count + 1
         /\ ~pre[p].present /\ pre[p].count >= 3 => result[p].kind = "IP_RATE_LIMIT"

C10_Witness ==
  \E p \in Procs :
    /\ pc[p] = "done"
    /\ pre[p].count = 3 /\ ~pre[p].present
    /\ result[p].kind = "IP_RATE_LIMIT"
    /\ waitlist[1].email = <<"j", "@", "x", ".", "c">>

\* the same for a call that is over, from what was noted of it
NameLongEnoughIn(a) == Len(Trim(a.name)) >= NameMinLen

\* the call of p was made with an email that was registered when it started
Registered(p) ==
  /\ pc[p] = "done" /\ op[p] = "addToWaitlist"
  /\ NameLongEnough(p) /\ EmailShaped(p)
  /\ pre[p].present

\* the caller's previous call was made with the same email, up to case, which
\* was registered then too
RegisteredBefore(p) ==
  /\ prev.op = "addToWaitlist"
  /\ NameLongEnoughIn(prev.args) /\ EmailRegexTest(prev.args.email)
  /\ prev.pre.present
  /\ NormalizeEmail(prev.args.email) = NormalizeEmail(args[p].email)

\* C11 as stated: whatever the store, a call with a registered email, in any
\* spelling of its case, fails with DUPLICATE_EMAIL, and so did the call before
\* it with that email; the store holds one entry with that email.
C11_Original ==
  \A p \in Procs :
    Registered(p) =>
      /\ result[p].kind = "DUPLICATE_EMAIL"
      /\ RegisteredBefore(p) => prev.kind = "DUPLICATE_EMAIL"
      /\ Cardinality(findByEmail(waitlist, args[p].email)) = 1

\* C11 amended: that holds while the store is below the capacity; in a store
\* at capacity both calls fail with WAITLIST_FULL, the capacity check coming
\* first.  In both cases the calls insert nothing and the store keeps its one
\* entry with that email.
C11_Idempotent ==
  \A p \in Procs :
    Registered(p) =>
      LET kind == IF pre[p].count >= maxEntries THEN "WAITLIST_FULL"
                  ELSE "DUPLICATE_EMAIL"
      IN /\ result[p].kind = kind
         /\ RegisteredBefore(p) => prev.kind = kind /\ prev.pre.count = pre[p].count
         /\ inserted[p] = 0
         /\ Len(waitlist) = pre[p].count
         /\ Cardinality(findByEmail(waitlist, args[p].email)) = 1

C11_Witness ==
  \E p \in Procs :
    /\ Registered(p) /\ RegisteredBefore(p)
    /\ prev.args.email # args[p].email
    /\ prev.kind = "DUPLICATE_EMAIL"
    /\ result[p].kind = "DUPLICATE_EMAIL"
    /\ queries[p] = <<"countWaitlist", "findByEmail">>

\* a finished contact submission whose fields are valid: they pass the checks
\* of addContactSubmission and fit the lengths of the contact entry
ValidContact(p) ==
  /\ pc[p] = "done" /\ op[p] = "addContactSubmission"
  /\ NameLongEnough(p) /\ NameFits(p) /\ EmailShaped(p)
  /\ ~SubjectRejected(args[p].subject)
  /\ Len(Trim(args[p].subject)) <= SubjectMaxLen
  /\ ~MessageRejected(args[p].message)
  /\ Len(Trim(args[p].message)) <= MessageMaxLen
  /\ args[p].ipAddress # "" /\ args[p].userAgent # ""

\* C12: a valid contact submission is rejected only by the contact limit of its
\* address, never for its email being on the waitlist or in earlier contact
\* entries; when it succeeds it has appended one contact entry with its
\* normalized email; no step of a contact submission changes the waitlist.
C12_Independent ==
  /\ [](\A p \in Procs :
          ValidContact(p) =>
            /\ result[p].kind \in {"OK", "IP_RATE_LIMIT"}
            /\ pre[p].recentFromIP < contactIpLimit => result[p].kind = "OK"
            /\ result[p].kind = "IP_RATE_LIMIT" => pre[p].recentFromIP >= contactIpLimit
            /\ result[p].kind = "OK" =>
                 /\ inserted[p] = 1
                 /\ Len(contacts) = pre[p].contacts + 1
                 /\ contacts[Len(contacts)].email = NormalizeEmail(args[p].email)
            /\ Len(waitlist) = pre[p].count)
  /\ [][ (\E p \in Procs : op'[p] = "addContactSubmission") => waitlist' = waitlist ]_vars

C12_Witness ==
  \E p \in Procs :
    /\ ValidContact(p)
    /\ result[p].kind = "OK"
    /\ pre[p].present
    /\ Len(contacts) = 2
    /\ contacts[1].email = contacts[2].email

\* a finished getWaitlistStats call
StatsDone(p) == pc[p] = "done" /\ op[p] = "getWaitlistStats"

\* C13: the successful addToWaitlist calls are as many as the entries, whatever
\* else was called, and a getWaitlistStats call during which no admission
\* inserted returns that number as totalSignups; in any case totalSignups lies
\* between the entries at the start and at the end of the call.
C13_TotalSignups ==
  /\ Len(positions) = Len(waitlist)
  /\ \A p \in Procs :
       StatsDone(p) =>
         /\ pre[p].count <= result[p].value.totalSignups
         /\ result[p].value.totalSignups <= Len(positions)
         /\ Len(waitlist) = pre[p].count =>
              result[p].value.totalSignups = Len(positions)

C13_Witness ==
  \E p, q \in Procs :
    /\ StatsDone(p)
    /\ overlapped[p] = {}
    /\ result[p].value.totalSignups = 2
    /\ Len(positions) = 2
    /\ pc[q] = "done" /\ op[q] = "addToWaitlist" /\ result[q].kind = "DUPLICATE_EMAIL"

\* Math.round(n / d * 100) for n >= 0 and d > 0
PercentRounded(n, d) == (200 * n + d) \div (2 * d)

\* C14 as stated: every result of getWaitlistStats has the fields totalSignups,
\* recentSignups24h, capacity, percentageFull and lastUpdated, percentageFull
\* being round(totalSignups / capacity * 100) and capacity the maximum that
\* addToWaitlist enforces.
C14_Original ==
  \A p \in Procs :
    StatsDone(p) =>
      /\ DOMAIN result[p].value =
           {"totalSignups", "recentSignups24h", "capacity", "percentageFull", "lastUpdated"}
      /\ result[p].value.capacity = maxEntries
      /\ result[p].value.percentageFull =
           PercentRounded(result[p].value.totalSignups, result[p].value.capacity)

\* C15 as stated: in any execution the positions returned are monotonic in
\* the order in which the entries were inserted.
C15_Original ==
  \A i, j \in 1..Len(positions) :
    i < j => positions[i].position <= positions[j].position

\* C15 amended: a position is at least 1 and at most the rank of its entry in
\* insertion order, and equal to the rank for a call that overlapped no other
\* call, so the position of such a call is larger than that of every entry
\* inserted before; positions of overlapping calls can be out of order.
C15_Monotone ==
  /\ \A i \in 1..Len(positions) :
       /\ 1 <= positions[i].position
       /\ positions[i].position <= i
  /\ \A i, j \in 1..Len(positions) :
       i < j /\ positions[j].alone => positions[i].position < positions[j].position

C15_Witness ==
  /\ Len(positions) = 3
  /\ ~positions[1].alone /\ ~positions[2].alone
  /\ positions[1].position = positions[2].position
  /\ positions[3].alone
  /\ positions[3].position = 3

\* C16: a call that overlapped no other call returns the rank of its entry:
\* the k-th successful admission returns position k; two overlapping calls
\* with different emails can both succeed with the same position.
C16_Positions ==
  /\ \A i \in 1..Len(positions) : positions[i].alone => positions[i].position = i
  /\ \A p \in Procs :
       (pc[p] = "done" /\ result[p].kind = "OK" /\ overlapped[p] = {}) =>
         result[p].position = pre[p].count + 1

C16_Witness ==
  \E p, q \in Procs :
    /\ p # q
    /\ pc[p] = "done" /\ pc[q] = "done"
    /\ result[p].kind = "OK" /\ result[q].kind = "OK"
    /\ NormalizeEmail(args[p].email) # NormalizeEmail(args[q].email)
    /\ result[p].position = result[q].position
    /\ Len(waitlist) = 2

\* the document the insert of the call of p would store
DocOf(p) ==
  NewWaitlist(Trim(args[p].name), Trim(ToLowerCase(args[p].email)),
              args[p].ipAddress, args[p].userAgent, now)

\* C17: a round-trip of addToWaitlist ends the call with a business failure
\* only where the business rule itself fails: WAITLIST_FULL at the count of a
\* full store, DUPLICATE_EMAIL at the find or at the insert of a registered
\* email, IP_RATE_LIMIT at the count of an address at its limit.  Every other
\* failure of a round-trip ends the call with the store's own error, and no
\* failing round-trip changes the collection.
C17_StoreFailures ==
  [][ \A p \in Procs :
        (pc[p] \in WaitlistAwaits /\ pc'[p] = "done") =>
          LET kind == result'[p].kind
          IN /\ kind \notin {"INVALID_NAME", "INVALID_EMAIL"}
             /\ kind = "WAITLIST_FULL" =>
                  pc[p] = "count" /\ countWaitlist(waitlist) >= maxEntries
             /\ kind = "DUPLICATE_EMAIL" =>
                  \/ pc[p] = "find" /\ findByEmail(waitlist, args[p].email) # {}
                  \/ pc[p] = "insert" /\ UniqueViolation(waitlist, DocOf(p))
             /\ kind = "IP_RATE_LIMIT" =>
                  /\ pc[p] = "ip"
                  /\ countRecentByIP(waitlist, args[p].ipAddress, now) >= ipLimit
             /\ kind \notin BusinessKinds \cup {"OK"} =>
                  kind \in {StoreError.name, "ValidationError"}
             /\ kind # "OK" => waitlist' = waitlist /\ inserted'[p] = 0 ]_vars

C17_Witness ==
  \E p, q \in Procs :
    /\ pc[p] = "done" /\ pc[q] = "done"
    /\ result[q].kind = "DUPLICATE_EMAIL"
    /\ queries[q] = <<"countWaitlist", "findByEmail", "countRecentByIP", "insertWaitlistEntry">>
    /\ result[p].kind = StoreError.name
    /\ queries[p] = <<"countWaitlist", "findByEmail">>
    /\ Len(waitlist) = 1

\* the store operations of a call that read, and those that insert
Reads(p) ==
  { i \in 1..Len(queries[p]) :
      queries[p][i] \in {"countWaitlist", "findByEmail", "countRecentByIP",
                         "countContactsByIP"} }

Inserts(p) ==
  { i \in 1..Len(queries[p]) :
      queries[p][i] \in {"insertWaitlistEntry", "insertContactEntry"} }

\* how far a call has come
AwaitRank(label) ==
  CASE label \in {"count", "contactIp"} -> 1
    [] label \in {"find", "contactInsert"} -> 2
    [] label = "ip" -> 3
    [] label = "insert" -> 4
    [] OTHER -> 5

\* C18: a call in flight issues at most three reads and one insert, its next
\* step needs nothing but the answer of the store whatever the other calls do,
\* each answer takes it to a later await or to its end and never back, and
\* when every round-trip returns every call in flight eventually ends.
C18_Completes ==
  /\ [](\A p \in Procs :
          /\ Cardinality(Reads(p)) <= 3
          /\ Cardinality(Inserts(p)) <= 1
          /\ pc[p] \in InFlight => ENABLED Resolve(p))
  /\ [][ \A p \in Procs :
          (pc[p] \in InFlight /\ pc'[p] # pc[p]) =>
            AwaitRank(pc'[p]) > AwaitRank(pc[p]) ]_vars
  /\ \A p \in Procs : (pc[p] \in InFlight) ~> (pc[p] = "done")

C18_Witness ==
  \E p, q \in Procs :
    /\ pc[p] = "done" /\ op[p] = "addToWaitlist" /\ result[p].kind = "OK"
    /\ Cardinality(Reads(p)) = 3 /\ Cardinality(Inserts(p)) = 1
    /\ op[q] = "addContactSubmission" /\ pc[q] = "contactIp"
    /\ q \in overlapped[p] /\ p \in overlapped[q]

AllBusinessKinds == BusinessKinds \cup {"INVALID_SUBJECT", "INVALID_MESSAGE"}

\* the call of p repeats the caller's previous call, which failed with a
\* business failure
Resubmitted(p) ==
  /\ pc[p] = "done"
  /\ prev.op = op[p]
  /\ prev.args = args[p]
  /\ prev.kind \in AllBusinessKinds

\* entries of the last 24 hours from the address of the call, its own excluded
RecentNow(p) ==
  IF op[p] = "addContactSubmission"
    THEN countContactsByIP(SubSeq(contacts, 1, Len(contacts) - inserted[p]),
                           args[p].ipAddress, now)
    ELSE countRecentByIP(Before(p), args[p].ipAddress, now)

LimitOf(p) == IF op[p] = "addContactSubmission" THEN contactIpLimit ELSE ipLimit

ContactsBefore(p) == SubSeq(contacts, 1, Len(contacts) - inserted[p])

\* contact entries of the address of the call, of any age / of the last 24 hours
ContactsEverFrom(p) ==
  Cardinality({ i \in 1..Len(ContactsBefore(p)) : contacts[i].ipAddress = args[p].ipAddress })

ContactsRecentFrom(p) ==
  Cardinality({ i \in 1..Len(ContactsBefore(p)) :
                  /\ contacts[i].ipAddress = args[p].ipAddress
                  /\ contacts[i].createdAt >= now - Day })

\* waitlist entries of the address of the call, of any age
SignupsEverFrom(p) ==
  Cardinality({ i \in 1..Len(Before(p)) : waitlist[i].ipAddress = args[p].ipAddress })

\* C20: a valid contact submission from an address that has as many contact
\* entries of the last 24 hours as the contact limit fails with IP_RATE_LIMIT
\* and stores nothing.  The two counters are independent: a valid contact
\* submission from an address with fewer contact entries than the contact limit
\* is stored however many waitlist entries the address has, a contact
\* submission fails with IP_RATE_LIMIT only if the contact entries of its
\* address reach the contact limit, and a signup fails with IP_RATE_LIMIT only
\* if the waitlist entries of its address reach the signup limit; an admissible
\* signup succeeds however many contact entries its address has.
C20_ContactLimit ==
  \A p \in Procs :
    /\ ( /\ ValidContact(p)
         /\ pre[p].recentFromIP >= contactIpLimit
         /\ ContactsRecentFrom(p) >= contactIpLimit )
       => /\ result[p].kind = "IP_RATE_LIMIT"
          /\ inserted[p] = 0
          /\ Len(contacts) = pre[p].contacts
    /\ ValidContact(p) /\ ContactsEverFrom(p) < contactIpLimit
       => /\ result[p].kind = "OK"
          /\ Len(contacts) = pre[p].contacts + 1
    /\ ( /\ pc[p] = "done" /\ op[p] = "addContactSubmission"
         /\ result[p].kind = "IP_RATE_LIMIT" )
       => ContactsEverFrom(p) >= contactIpLimit
    /\ ( /\ pc[p] = "done" /\ op[p] = "addToWaitlist"
         /\ result[p].kind = "IP_RATE_LIMIT" )
       => SignupsEverFrom(p) >= ipLimit
    /\ ( /\ pc[p] = "done" /\ op[p] = "addToWaitlist"
         /\ Admissible(p) /\ NameFits(p) )
       => result[p].kind = "OK"

\* a contact submission is turned away at the contact limit; the one before
\* it was stored although the address had a waitlist entry already
C20_Witness ==
  \E p \in Procs :
    /\ ValidContact(p)
    /\ result[p].kind = "IP_RATE_LIMIT"
    /\ contactIpLimit = 1
    /\ ContactsRecentFrom(p) = 1
    /\ prev.op = "addContactSubmission"
    /\ prev.kind = "OK"
    /\ prev.pre.count >= contactIpLimit
    /\ \E i \in 1..Len(waitlist) : waitlist[i].ipAddress = args[p].ipAddress

\* the four field checks of a contact submission pass
FieldsPass(a) ==
  /\ ~NameRejected(a.name)
  /\ ~EmailRejected(a.email)
  /\ ~SubjectRejected(a.subject)
  /\ ~MessageRejected(a.message)

Issued(p, query) == \E i \in 1..Len(queries[p]) : queries[p][i] = query

\* C21: a failing contact submission reports the first failing check in the
\* order name, email, subject, message, limit of the address, whatever else
\* fails with it, and countContactsByIP is issued only when the four field
\* checks pass.
C21_ContactOrder ==
  \A p \in Procs :
    (op[p] = "addContactSubmission" /\ pc[p] # "idle") =>
      /\ Issued(p, "countContactsByIP") <=> FieldsPass(args[p])
      /\ pc[p] = "done" =>
           /\ NameRejected(args[p].name) => result[p].kind = "INVALID_NAME"
           /\ ( /\ ~NameRejected(args[p].name)
                /\ EmailRejected(args[p].email) )
              => result[p].kind = "INVALID_EMAIL"
           /\ ( /\ ~NameRejected(args[p].name)
                /\ ~EmailRejected(args[p].email)
                /\ SubjectRejected(args[p].subject) )
              => result[p].kind = "INVALID_SUBJECT"
           /\ ( /\ ~NameRejected(args[p].name)
                /\ ~EmailRejected(args[p].email)
                /\ ~SubjectRejected(args[p].subject)
                /\ MessageRejected(args[p].message) )
              => result[p].kind = "INVALID_MESSAGE"
           /\ ( /\ FieldsPass(args[p])
                /\ pre[p].recentFromIP >= contactIpLimit
                /\ ContactsRecentFrom(p) >= contactIpLimit )
              => result[p].kind = "IP_RATE_LIMIT"
           /\ result[p].kind = "IP_RATE_LIMIT" =>
                /\ FieldsPass(args[p])
                /\ queries[p] = <<"countContactsByIP">>

\* subject and message both fail at an address that has reached its limit
C21_Witness ==
  \E p \in Procs :
    /\ pc[p] = "done" /\ op[p] = "addContactSubmission"
    /\ ~NameRejected(args[p].name)
    /\ ~EmailRejected(args[p].email)
    /\ SubjectRejected(args[p].subject)
    /\ MessageRejected(args[p].message)
    /\ ContactsRecentFrom(p) >= contactIpLimit
    /\ result[p].kind = "INVALID_SUBJECT"
    /\ queries[p] = <<>>

\* waitlist entries of an address that joined within the 24 hours from t on
JoinedWithin(ipAddress, t) ==
  { i \in 1..Len(waitlist) :
      /\ waitlist[i].ipAddress = ipAddress
      /\ waitlist[i].joinedAt >= t
      /\ waitlist[i].joinedAt <= t + Day }

NotOlderThanDay(p) ==
  { i \in 1..Len(waitlist) :
      /\ waitlist[i].ipAddress = args[p].ipAddress
      /\ now - waitlist[i].joinedAt <= Day }

\* C23: at the instant of its per-address check a signup is turned away with
\* IP_RATE_LIMIT exactly when the entries of its address that are at most 24
\* hours old, an entry of exactly 24 hours included, are as many as the limit;
\* older entries do not count, so an address that was turned away is admitted
\* again later.
C23_RollingWindow ==
  [][ \A p \in Procs :
        (pc[p] = "ip" /\ pc'[p] # "ip") =>
          ( (pc'[p] = "done" /\ result'[p].kind = "IP_RATE_LIMIT")
            <=> Cardinality(NotOlderThanDay(p)) >= ipLimit ) ]_vars

\* the call was turned away, and the same call is admitted more than 24 hours
\* after the entry that stood against it
C23_Witness ==
  \E p \in Procs :
    /\ Resubmitted(p)
    /\ op[p] = "addToWaitlist"
    /\ prev.kind = "IP_RATE_LIMIT"
    /\ result[p].kind = "OK"
    /\ ipLimit = 1
    /\ Len(waitlist) = 2
    /\ waitlist[2].joinedAt > waitlist[1].joinedAt + Day

\* every entry of the store before the step is in the store after it, unchanged
Kept(store, storeAfter) ==
  /\ Len(storeAfter) >= Len(store)
  /\ \A i \in 1..Len(store) : storeAfter[i] = store[i]

\* the call of p ends in this step
Ends(p) == pc[p] # "done" /\ pc'[p] = "done"

\* C24: whatever the three operations do and however they interleave, every
\* entry stays in its collection with the field values it was created with;
\* a collection changes only by the one entry that a successful addToWaitlist
\* or addContactSubmission adds to it, and a getWaitlistStats call or a call
\* that fails changes neither collection.
C24_Frozen ==
  [][ /\ Kept(waitlist, waitlist')
      /\ Kept(contacts, contacts')
      /\ waitlist' # waitlist =>
           /\ Len(waitlist') = Len(waitlist) + 1
           /\ contacts' = contacts
           /\ \E p \in Procs : /\ Ends(p) /\ op[p] = "addToWaitlist"
                               /\ result'[p].kind = "OK"
      /\ contacts' # contacts =>
           /\ Len(contacts') = Len(contacts) + 1
           /\ waitlist' = waitlist
           /\ \E p \in Procs : /\ Ends(p) /\ op[p] = "addContactSubmission"
                               /\ result'[p].kind = "OK"
      /\ \A p \in Procs :
           (Ends(p) /\ (op'[p] = "getWaitlistStats" \/ result'[p].kind # "OK"))
           => (waitlist' = waitlist /\ contacts' = contacts) ]_vars

\* both collections hold an entry, a statistics call has counted and a signup
\* has failed
C24_Witness ==
  \E p, q \in Procs :
    /\ Len(waitlist) = 1
    /\ Len(contacts) = 1
    /\ pc[p] = "done" /\ op[p] = "getWaitlistStats"
    /\ result[p].value.totalSignups = 1
    /\ pc[q] = "done" /\ op[q] = "addToWaitlist"
    /\ result[q].kind = "DUPLICATE_EMAIL"

\* C25: the position a successful signup is told is at least 1, at most the
\* capacity and at most the number of entries right after its insert, however
\* the calls interleave and also when there are more entries than the capacity.
C25_PositionBounds ==
  /\ [](\A p \in Procs :
          (pc[p] = "done" /\ op[p] = "addToWaitlist" /\ result[p].kind = "OK") =>
            /\ 1 <= result[p].position
            /\ result[p].position <= maxEntries
            /\ result[p].position <= Len(waitlist))
  /\ [][ \A p \in Procs :
           (pc[p] = "insert" /\ Ends(p) /\ result'[p].kind = "OK") =>
             /\ 1 <= result'[p].position
             /\ result'[p].position <= maxEntries
             /\ result'[p].position <= Len(waitlist') ]_vars

\* two signups were admitted over a capacity of one, both at position 1
C25_Witness ==
  \E p, q \in Procs :
    /\ p # q
    /\ pc[p] = "done" /\ result[p].kind = "OK"
    /\ pc[q] = "done" /\ result[q].kind = "OK"
    /\ Len(waitlist) > maxEntries
    /\ result[p].position = maxEntries
    /\ result[q].position = maxEntries

\* the waitlist had reached its capacity when the call of p started
StartedFull(p) ==
  /\ op[p] = "addToWaitlist" /\ pc[p] # "idle"
  /\ NameLongEnough(p) /\ EmailShaped(p)
  /\ pre[p].count >= maxEntries

\* C26: a signup with a valid name and email that starts when the waitlist has
\* reached its capacity never gets past the capacity check and ends with
\* WAITLIST_FULL, whether its email is registered or not and whatever other
\* calls are in flight; it adds no entry.
C26_FullIsStable ==
  \A p \in Procs :
    StartedFull(p) =>
      /\ pc[p] \in {"count", "done"}
      /\ inserted[p] = 0
      /\ pc[p] = "done" =>
           /\ result[p].kind = "WAITLIST_FULL"
           /\ queries[p] = <<"countWaitlist">>

\* an unregistered email is turned away at a full waitlist while another call
\* is in flight
C26_Witness ==
  \E p \in Procs :
    /\ StartedFull(p)
    /\ pc[p] = "done"
    /\ ~pre[p].present
    /\ overlapped[p] # {}
    /\ result[p].kind = "WAITLIST_FULL"

\* C27 as stated: every result of getWaitlistStats has recentSignups24h <=
\* totalSignups, also when signups insert entries while the statistics call
\* is between its two counts.
C27_Original ==
  \A p \in Procs :
    StatsDone(p) => result[p].value.recentSignups24h <= result[p].value.totalSignups

\* C28 as stated: no route handler runs on the session of the cookie when the
\* request comes from another address than the one the session was made for
\* and recorded with: sessionSecurity has regenerated the session before.
C28_Original ==
  ( /\ req.stage \in {"handler", "handled"}
    /\ req.existing
    /\ req.recorded # req.ip
    /\ req.creator # req.ip )
  => req.sessionID # req.cookie

\* C29 as stated: after a signal the database connection is closed only when
\* the HTTP server has finished closing, the process exits with 0 only after
\* the database close completed and with 1 only after the force timer fired.
C29_Original ==
  signal \in Signals =>
    /\ db # "connected" => server = "closed"
    /\ exitCode = 0 => (server = "closed" /\ db \in {"closed", "failed"})
    /\ exitCode = 1 => timer = "fired"

RetryOver == retry.pc \in {"returned", "thrown"}

\* C30: retryWithBackoff invokes fn at most maxRetries + 1 times and never
\* again after a success, whose value it returns; after the failed attempt
\* number n (from 0) it sleeps baseDelay * 2^n if and only if another attempt
\* follows; when all maxRetries + 1 attempts fail it throws the error of the
\* last one; and it comes to an end when every invocation of fn and every
\* sleep does.
C30_RetryWithBackoff ==
  /\ [] ( /\ Len(retry.calls) <= retry.maxRetries + 1
          /\ \A k \in 1..(Len(retry.calls) - 1) : retry.calls[k] \in FnErrors
          /\ \A k \in 1..Len(retry.sleeps) : retry.sleeps[k] = retry.baseDelay * (2 ^ (k - 1))
          /\ retry.pc = "fn" => Len(retry.sleeps) = Len(retry.calls)
          /\ retry.pc = "sleep" =>
               /\ Len(retry.sleeps) = Len(retry.calls)
               /\ Len(retry.calls) <= retry.maxRetries
          /\ retry.pc = "returned" =>
               /\ retry.calls[Len(retry.calls)] = FnValue
               /\ retry.outcome = FnValue
               /\ Len(retry.sleeps) = Len(retry.calls) - 1
          /\ retry.pc = "thrown" =>
               /\ Len(retry.calls) = retry.maxRetries + 1
               /\ retry.calls[Len(retry.calls)] \in FnErrors
               /\ retry.outcome = retry.calls[Len(retry.calls)]
               /\ Len(retry.sleeps) = retry.maxRetries )
  /\ (retry.pc \in {"fn", "sleep"}) ~> RetryOver

\* three attempts failed, the last with another error than the one before,
\* and that error is thrown after sleeps of 1000 and 2000
C30_Witness ==
  /\ retry.pc = "thrown"
  /\ retry.maxRetries = 2
  /\ retry.calls = <<"E1", "E1", "E2">>
  /\ retry.outcome = "E2"
  /\ retry.sleeps = <<1000, 2000>>

====
